---- MODULE Spec2Model ----
(***************************************************************************)
(* Model of ifupdown2/lib/iproute2.py: class IPRoute2.                     *)
(*                                                                         *)
(* Every method of the class is an operator on a "machine" record m that   *)
(* carries the object's private fields (batch, batch_mode), the cache, the *)
(* trace of what the call has done so far and the exception in flight.     *)
(* A method called from outside is an action: it runs the operator on the  *)
(* current state and stores the result.                                    *)
(***************************************************************************)
EXTENDS Integers, Sequences, FiniteSets, TLC

VARIABLES
    batch,          \* self.__batch: None or a list of command fragments
    batch_mode,     \* self.__batch_mode
    cache,          \* self.cache: what the state cache answers, per link
    sysfs,          \* self.sysfs: what sysfs answers, per link
    last,           \* the last call: its name, arguments, trace and outcome
    txn,            \* history: fragments emitted inside the open transaction
    bridge_utils_is_installed,  \* Requirements.bridge_utils_is_installed
    overrides       \* the methods __init__ replaced on the instance by no-ops

vars ==
    <<batch, batch_mode, cache, sysfs, last, txn, bridge_utils_is_installed,
      overrides>>

----------------------------------------------------------------------------
(* Bounds *)

\* a call may add to the pending buffer while it holds fewer fragments
MaxBatch == 2

\* the executor invocation of a call that may fail: 0 (none) .. MaxFail
MaxFail == 3

\* the lines of an FDB listing
MaxLines == 2

----------------------------------------------------------------------------
(* Python values *)

\* self.__batch = None
None == [null |-> TRUE, items |-> <<>>]

\* self.__batch = list()
List(s) == [null |-> FALSE, items |-> s]

\* truth value of self.__batch: None and the empty list are false
Truthy(b) == ~b.null /\ b.items # <<>>

\* "sep".join(s)
RECURSIVE Join(_, _)
Join(sep, s) ==
    IF s = <<>> THEN ""
    ELSE IF Len(s) = 1 THEN s[1]
    ELSE s[1] \o sep \o Join(sep, Tail(s))

\* exec_command called without stdin
NoStdin == "<no stdin>"

----------------------------------------------------------------------------
(* External collaborators *)

ip_cmd == "/bin/ip"
bridge_cmd == "/sbin/bridge"
brctl_cmd == "/sbin/brctl"

\* the hardware addresses a caller may ask for, as their six octets
MacOctets(address) ==
    CASE address = "00:00:5e:00:01:01" -> <<0, 0, 94, 0, 1, 1>>
      [] address = "00:00:5E:00:01:01" -> <<0, 0, 94, 0, 1, 1>>
      [] address = "00:00:5e:00:01:02" -> <<0, 0, 94, 0, 1, 2>>

MacStrs == {"00:00:5e:00:01:01", "00:00:5E:00:01:01", "00:00:5e:00:01:02"}

RECURSIVE OctetsToInt(_, _)
OctetsToInt(octets, acc) ==
    IF octets = <<>> THEN acc
    ELSE OctetsToInt(Tail(octets), acc * 256 + Head(octets))

\* utils.mac_str_to_int: the 48-bit value of the address
mac_str_to_int(address) == OctetsToInt(MacOctets(address), 0)

MacInts == {mac_str_to_int(a) : a \in MacStrs}

\* one entry of a call's trace
Event(kind, prefix, cmd, stdin, ok) ==
    [kind |-> kind, prefix |-> prefix, cmd |-> cmd, stdin |-> stdin, ok |-> ok]

IsExec(e) == e.kind = "exec"
IsEmit(e) == e.kind = "emit"
IsFlush(e) == e.kind = "flush"

\* the executor invocations of a trace, and the fragments handed to
\* __execute_or_batch, in order
Execs(tr) == SelectSeq(tr, IsExec)
Emits(tr) == SelectSeq(tr, IsEmit)

Cmds(evs) == [i \in 1..Len(evs) |-> evs[i].cmd]

\* utils.exec_command(cmd, stdin): one executor invocation; it raises when
\* the command fails (the m.fail-th invocation of the call does)
exec_command(m, cmd, stdin) ==
    IF m.raised # "" THEN m
    ELSE LET ok == m.fail # Len(Execs(m.trace)) + 1
         IN [m EXCEPT !.trace = Append(@, Event("exec", "", cmd, stdin, ok)),
                      !.raised = IF ok THEN "" ELSE "CommandFailed"]

\* self.cache.address_flush_link(ifname)
address_flush_link(m, ifname) ==
    IF m.raised # "" THEN m
    ELSE [m EXCEPT !.trace = Append(@, Event("flush", "", ifname, NoStdin, TRUE)),
                   !.cache.address_cached[ifname] = FALSE]

\* a return statement
Return(m, v) == IF m.raised # "" THEN m ELSE [m EXCEPT !.ret = v]

----------------------------------------------------------------------------
(* BATCH *)

\* mutant: the fragment is put at the head of the buffer
add_to_batch_prepends(m, cmd) ==
    IF m.raised # "" THEN m
    ELSE IF m.batch.null THEN [m EXCEPT !.raised = "AttributeError"]
    ELSE [m EXCEPT !.batch = List(<<cmd>> \o m.batch.items)]

__add_to_batch(m, cmd) ==
    IF m.raised # "" THEN m
    ELSE IF m.batch.null THEN [m EXCEPT !.raised = "AttributeError"]
    ELSE [m EXCEPT !.batch = List(Append(m.batch.items, cmd))]

\* mutant: the fragment is buffered and executed as well
execute_and_batch(m, prefix, cmd) ==
    IF m.raised # "" THEN m
    ELSE LET m1 == [m EXCEPT !.trace = Append(@, Event("emit", prefix, cmd, NoStdin, TRUE))]
         IN IF m1.batch_mode
            THEN exec_command(__add_to_batch(m1, cmd), prefix \o " " \o cmd, NoStdin)
            ELSE exec_command(m1, prefix \o " " \o cmd, NoStdin)

\* mutant: a command that fails is run a second time
execute_or_batch_retries(m, prefix, cmd) ==
    IF m.raised # "" THEN m
    ELSE LET m1 == [m EXCEPT !.trace = Append(@, Event("emit", prefix, cmd, NoStdin, TRUE))]
             m2 == exec_command(m1, prefix \o " " \o cmd, NoStdin)
         IN IF m1.batch_mode THEN __add_to_batch(m1, cmd)
            ELSE IF m2.raised = "" THEN m2
            ELSE exec_command([m2 EXCEPT !.raised = ""],
                              prefix \o " " \o cmd, NoStdin)

__execute_or_batch(m, prefix, cmd) ==
    IF m.raised # "" THEN m
    ELSE LET m1 == [m EXCEPT !.trace = Append(@, Event("emit", prefix, cmd, NoStdin, TRUE))]
         IN IF m1.batch_mode
            THEN __add_to_batch(m1, cmd)
            ELSE exec_command(m1, prefix \o " " \o cmd, NoStdin)

\* mutant: a transaction that is already open keeps its pending fragments
batch_start_keeps_pending(m) ==
    IF m.batch_mode THEN m
    ELSE [m EXCEPT !.batch_mode = TRUE, !.batch = List(<<>>)]

batch_start(m) ==
    [m EXCEPT !.batch_mode = TRUE, !.batch = List(<<>>)]

\* mutant: the cleanup runs only when the executor succeeds
batch_commit_no_finally(m) ==
    IF ~m.batch_mode \/ ~Truthy(m.batch) THEN m
    ELSE LET m1 == exec_command(m, ip_cmd \o " -force -batch -",
                                Join("\n", m.batch.items))
         IN IF m1.raised # "" THEN m1
            ELSE [m1 EXCEPT !.batch_mode = FALSE, !.batch = None]

batch_commit(m) ==
    IF ~m.batch_mode \/ ~Truthy(m.batch) THEN m
    ELSE LET m1 == exec_command(m, ip_cmd \o " -force -batch -",
                                Join("\n", m.batch.items))
         IN \* finally:
            [m1 EXCEPT !.batch_mode = FALSE, !.batch = None]

\* mutant: the cleanup drops the buffer and leaves batch mode on
bridge_batch_commit_keeps_mode(m) ==
    IF ~m.batch_mode \/ ~Truthy(m.batch) THEN m
    ELSE LET m1 == exec_command(m, bridge_cmd \o " -force -batch -",
                                Join("\n", m.batch.items))
         IN [m1 EXCEPT !.batch = None]

bridge_batch_commit(m) ==
    IF ~m.batch_mode \/ ~Truthy(m.batch) THEN m
    ELSE LET m1 == exec_command(m, bridge_cmd \o " -force -batch -",
                                Join("\n", m.batch.items))
         IN \* finally:
            [m1 EXCEPT !.batch_mode = FALSE, !.batch = None]

----------------------------------------------------------------------------
(* LINK *)

link_up_force(m, ifname) ==
    __execute_or_batch(m, ip_cmd, "link set dev " \o ifname \o " up")

link_down_force(m, ifname) ==
    __execute_or_batch(m, ip_cmd, "link set dev " \o ifname \o " down")

\* mutant: link_up without the cache check
link_up_unchecked(m, ifname) ==
    IF m.raised # "" THEN m ELSE link_up_force(m, ifname)

link_up(m, ifname) ==
    IF m.raised # "" THEN m
    ELSE IF ~m.cache.link_is_up[ifname] THEN link_up_force(m, ifname) ELSE m

link_down(m, ifname) ==
    IF m.raised # "" THEN m
    ELSE IF m.cache.link_is_up[ifname] THEN link_down_force(m, ifname) ELSE m

link_set_master(m, ifname, master) ==
    IF master # m.cache.master[ifname]
    THEN __execute_or_batch(m, ip_cmd,
             "link set dev " \o ifname \o " master " \o master)
    ELSE m

\* mutant: the address is set without comparing it with the cached one
link_set_address_unchecked(m, ifname, address) ==
    LET m1 == link_down(m, ifname)
        m2 == __execute_or_batch(m1, ip_cmd,
                  "link set dev " \o ifname \o " address " \o address)
    IN link_up(m2, ifname)

link_set_address(m, ifname, address) ==
    IF mac_str_to_int(address) # m.cache.link_address_raw[ifname]
    THEN LET m1 == link_down(m, ifname)
             m2 == __execute_or_batch(m1, ip_cmd,
                       "link set dev " \o ifname \o " address " \o address)
         IN link_up(m2, ifname)
    ELSE m

\* mutant: the macvlan link is created through the batch
link_add_macvlan_batched(m, ifname, macvlan_ifname, macvlan_mode) ==
    __execute_or_batch(m, ip_cmd,
        "link add link " \o ifname \o " name " \o macvlan_ifname
        \o " type macvlan mode " \o macvlan_mode)

link_add_macvlan(m, ifname, macvlan_ifname, macvlan_mode) ==
    exec_command(m, ip_cmd \o " link add link " \o ifname \o " name "
                    \o macvlan_ifname \o " type macvlan mode " \o macvlan_mode,
                 NoStdin)

link_up_dry_run(m, ifname) == link_up_force(m, ifname)

link_down_dry_run(m, ifname) == link_down_force(m, ifname)

link_set_master_dry_run(m, ifname, master) ==
    __execute_or_batch(m, ip_cmd,
        "link set dev " \o ifname \o " master " \o master)

link_set_address_dry_run(m, ifname, address) ==
    LET m1 == link_down(m, ifname)
        m2 == __execute_or_batch(m1, ip_cmd,
                  "link set dev " \o ifname \o " address " \o address)
    IN link_up(m2, ifname)

----------------------------------------------------------------------------
(* ADDRESS *)

\* addrgen_str = "none" if addrgen else "eui64"
link_set_ipv6_addrgen_dry_run(m, ifname, addrgen, link_created) ==
    LET addrgen_str == IF addrgen # 0 THEN "none" ELSE "eui64"
        m1 == link_down(m, ifname)
        m2 == __execute_or_batch(m1, ip_cmd,
                  "link set dev " \o ifname \o " addrgenmode " \o addrgen_str)
    IN link_up(m2, ifname)

\* the lowest MTU on which IPv6 address generation can be set
MinAddrgenMtu == 1280

\* Link.ifla_inet6_addr_gen_mode_dict.get(addrgen): 0 = eui64, 1 = none
ifla_inet6_addr_gen_mode_dict(addrgen) ==
    CASE addrgen = 0 -> "eui64"
      [] addrgen = 1 -> "none"
      [] OTHER -> "None"

\* mutant: the MTU check is off by one
link_set_ipv6_addrgen_mtu_off_by_one(m, ifname, addrgen, link_created) ==
    LET cached_ipv6_addr_gen_mode == m.cache.ipv6_addrgen_mode[ifname]
        disabled_ipv6 == sysfs.disable_ipv6[ifname]
        link_mtu == IF link_created THEN sysfs.link_mtu[ifname]
                    ELSE m.cache.link_mtu[ifname]
    IN IF cached_ipv6_addr_gen_mode = addrgen THEN Return(m, "True")
       ELSE IF disabled_ipv6 THEN Return(m, "False")
       ELSE IF link_mtu <= MinAddrgenMtu THEN Return(m, "False")
       ELSE LET m1 == IF ~link_created THEN address_flush_link(m, ifname) ELSE m
                is_link_up == m1.cache.link_is_up[ifname]
                m2 == IF is_link_up THEN link_down_force(m1, ifname) ELSE m1
                m3 == __execute_or_batch(m2, ip_cmd,
                          "link set dev " \o ifname \o " addrgenmode "
                          \o ifla_inet6_addr_gen_mode_dict(addrgen))
                m4 == IF is_link_up THEN link_up_force(m3, ifname) ELSE m3
            IN Return(m4, "True")

\* mutant: the link is brought back up through the cache-checked link_up
link_set_ipv6_addrgen_checked_up(m, ifname, addrgen, link_created) ==
    LET cached_ipv6_addr_gen_mode == m.cache.ipv6_addrgen_mode[ifname]
        disabled_ipv6 == sysfs.disable_ipv6[ifname]
        link_mtu == IF link_created THEN sysfs.link_mtu[ifname]
                    ELSE m.cache.link_mtu[ifname]
    IN IF cached_ipv6_addr_gen_mode = addrgen THEN Return(m, "True")
       ELSE IF disabled_ipv6 THEN Return(m, "False")
       ELSE IF link_mtu < MinAddrgenMtu THEN Return(m, "False")
       ELSE LET m1 == IF ~link_created THEN address_flush_link(m, ifname) ELSE m
                is_link_up == m1.cache.link_is_up[ifname]
                m2 == IF is_link_up THEN link_down_force(m1, ifname) ELSE m1
                m3 == __execute_or_batch(m2, ip_cmd,
                          "link set dev " \o ifname \o " addrgenmode "
                          \o ifla_inet6_addr_gen_mode_dict(addrgen))
                m4 == IF is_link_up THEN link_up(m3, ifname) ELSE m3
            IN Return(m4, "True")

link_set_ipv6_addrgen(m, ifname, addrgen, link_created) ==
    LET cached_ipv6_addr_gen_mode == m.cache.ipv6_addrgen_mode[ifname]
        disabled_ipv6 == sysfs.disable_ipv6[ifname]
        link_mtu == IF link_created THEN sysfs.link_mtu[ifname]
                    ELSE m.cache.link_mtu[ifname]
    IN IF cached_ipv6_addr_gen_mode = addrgen THEN Return(m, "True")
       ELSE IF disabled_ipv6 THEN Return(m, "False")
       ELSE IF link_mtu < MinAddrgenMtu THEN Return(m, "False")
       ELSE LET m1 == IF ~link_created THEN address_flush_link(m, ifname) ELSE m
                is_link_up == m1.cache.link_is_up[ifname]
                m2 == IF is_link_up THEN link_down_force(m1, ifname) ELSE m1
                m3 == __execute_or_batch(m2, ip_cmd,
                          "link set dev " \o ifname \o " addrgenmode "
                          \o ifla_inet6_addr_gen_mode_dict(addrgen))
                m4 == IF is_link_up THEN link_up_force(m3, ifname) ELSE m3
            IN Return(m4, "True")

----------------------------------------------------------------------------
(* VXLAN *)

VXLAN_UDP_PORT == 4789

\* a parameter left at None; "%s" % None is the text "None"
PyNone == "None"

\* truth value of an optional text parameter: None and "" are false
Given(x) == x # PyNone /\ x # ""

\* svcnodeip.is_multicast: the IPv4 multicast range is 224.0.0.0/4
is_multicast(ip) == ip \in {"239.1.1.1"}

\* mutant: the local tunnel IP clause is put before the physical device clause
VxlanClauses_local_before_dev(localtunnelip, svcnodeip, learning, ageing, ttl, physdev) ==
    (IF Given(svcnodeip)
     THEN IF is_multicast(svcnodeip) THEN <<"group " \o svcnodeip>>
          ELSE <<"remote " \o svcnodeip>>
     ELSE <<>>)
    \o (IF Given(ageing) THEN <<"ageing " \o ageing>> ELSE <<>>)
    \o (IF learning = "off" THEN <<"nolearning">> ELSE <<>>)
    \o (IF ttl # PyNone THEN <<"ttl " \o ttl>> ELSE <<>>)
    \o (IF Given(localtunnelip) THEN <<"local " \o localtunnelip>> ELSE <<>>)
    \o (IF Given(physdev) THEN <<"dev " \o physdev>> ELSE <<>>)

\* the clauses of the vxlan command after its head, in source order
VxlanClauses(localtunnelip, svcnodeip, learning, ageing, ttl, physdev) ==
    (IF Given(svcnodeip)
     THEN IF is_multicast(svcnodeip) THEN <<"group " \o svcnodeip>>
          ELSE <<"remote " \o svcnodeip>>
     ELSE <<>>)
    \o (IF Given(ageing) THEN <<"ageing " \o ageing>> ELSE <<>>)
    \o (IF learning = "off" THEN <<"nolearning">> ELSE <<>>)
    \o (IF ttl # PyNone THEN <<"ttl " \o ttl>> ELSE <<>>)
    \o (IF Given(physdev) THEN <<"dev " \o physdev>> ELSE <<>>)
    \o (IF Given(localtunnelip) THEN <<"local " \o localtunnelip>> ELSE <<>>)

\* mutant: service node and remote list are not checked for exclusion
link_create_vxlan_no_exclusion(m, name, vxlanid, localtunnelip, svcnodeip, remoteips, learning, ageing, ttl, physdev) ==
    LET head == IF m.cache.link_exists[name]
                THEN "link set dev " \o name \o " type vxlan dstport "
                     \o ToString(VXLAN_UDP_PORT)
                ELSE "link add dev " \o name \o " type vxlan id "
                     \o ToString(vxlanid) \o " dstport "
                     \o ToString(VXLAN_UDP_PORT)
        cmd == <<head>> \o VxlanClauses(localtunnelip, svcnodeip,
                                        learning, ageing, ttl, physdev)
    IN __execute_or_batch(m, ip_cmd, Join(" ", cmd))

link_create_vxlan(m, name, vxlanid, localtunnelip, svcnodeip, remoteips, learning, ageing, ttl, physdev) ==
    IF Given(svcnodeip) /\ Truthy(remoteips)
    THEN [m EXCEPT !.raised = "Exception"]
    ELSE LET head == IF m.cache.link_exists[name]
                     THEN "link set dev " \o name \o " type vxlan dstport "
                          \o ToString(VXLAN_UDP_PORT)
                     ELSE "link add dev " \o name \o " type vxlan id "
                          \o ToString(vxlanid) \o " dstport "
                          \o ToString(VXLAN_UDP_PORT)
             cmd == <<head>> \o VxlanClauses(localtunnelip, svcnodeip,
                                             learning, ageing, ttl, physdev)
         IN __execute_or_batch(m, ip_cmd, Join(" ", cmd))

\* an output line of 'bridge fdb show' is the sequence of its fields, which
\* white space separates; a line ends with its last field
ZeroMac == "00:00:00:00:00:00"

\* grep "00:00:00:00:00:00": the lines that hold the all-zero MAC
HasZeroMac(line) == \E i \in 1..Len(line) : line[i] = ZeroMac

\* \d+.\d+.\d+.\d+ on a whole field
IsDottedDigits(field) ==
    field \in {"10.0.0.2", "10.0.0.3", "10.0.0.4", "10.0.0.9"}

\* VXLAN_PEER_REGEX_PATTERN.search(l): the positions of a 'dst' field that has
\* white space before it, then a field of dotted digits, then white space
PeerMatches(line) ==
    {i \in 2..Len(line) - 2 : line[i] = "dst" /\ IsDottedDigits(line[i + 1])}

\* m.group(1) of the leftmost match
PeerGroup1(line) ==
    line[(CHOOSE i \in PeerMatches(line) : \A j \in PeerMatches(line) : i <= j) + 1]

\* the loop over output.split('\n')
RECURSIVE ParsePeers(_, _)
ParsePeers(lines, svcnodeip) ==
    IF lines = <<>> THEN <<>>
    ELSE (IF PeerMatches(Head(lines)) # {} /\ PeerGroup1(Head(lines)) # svcnodeip
          THEN <<PeerGroup1(Head(lines))>>
          ELSE <<>>)
         \o ParsePeers(Tail(lines), svcnodeip)

\* fdb is what 'bridge fdb show brport <dev>' prints; grep exits 1 when no
\* line holds the MAC and 2 on an error of its own, and check_output raises
\* CalledProcessError then
get_vxlan_peers(m, dev, svcnodeip, fdb, grep_error) ==
    LET m1 == [m EXCEPT !.trace = Append(@, Event("popen", "",
                   bridge_cmd \o " fdb show brport " \o dev, NoStdin, TRUE))]
        output == SelectSeq(fdb, HasZeroMac)
    IN IF grep_error \/ output = <<>> THEN Return(m1, <<>>)
       ELSE Return(m1, ParsePeers(output, svcnodeip))

----------------------------------------------------------------------------
(* BRIDGE *)

\* "self" if is_bridge else ""
Target(is_bridge) == IF is_bridge THEN "self" ELSE ""

\* "vlan %s " % vlan if vlan else ""
VlanStr(vlan) == IF Given(vlan) THEN "vlan " \o vlan \o " " ELSE ""

\* "dst %s " % remote if remote else ""
DstStr(remote) == IF Given(remote) THEN "dst " \o remote \o " " ELSE ""

\* "%s fdb <verb> %s dev %s %s %s %s"
FdbCommand(verb, dev, address, vlan, bridge, remote) ==
    bridge_cmd \o " fdb " \o verb \o " " \o address \o " dev " \o dev
    \o " " \o VlanStr(vlan) \o " " \o Target(bridge) \o " " \o DstStr(remote)

bridge_fdb_add(m, dev, address, vlan, bridge, remote) ==
    exec_command(m, FdbCommand("replace", dev, address, vlan, bridge, remote),
                 NoStdin)

bridge_fdb_append(m, dev, address, vlan, bridge, remote) ==
    exec_command(m, FdbCommand("append", dev, address, vlan, bridge, remote),
                 NoStdin)

bridge_fdb_del(m, dev, address, vlan, bridge, remote) ==
    exec_command(m, FdbCommand("del", dev, address, vlan, bridge, remote),
                 NoStdin)

\* if not vids: return, then one command per vid
RECURSIVE bridge_vlan_del_vid_list(_, _, _)
bridge_vlan_del_vid_list(m, ifname, vids) ==
    IF vids = <<>> THEN m
    ELSE bridge_vlan_del_vid_list(
             exec_command(m, bridge_cmd \o " vlan del vid "
                             \o ToString(Head(vids)) \o " dev " \o ifname,
                          NoStdin),
             ifname, Tail(vids))

RECURSIVE bridge_vlan_add_vid_list(_, _, _)
bridge_vlan_add_vid_list(m, ifname, vids) ==
    IF vids = <<>> THEN m
    ELSE bridge_vlan_add_vid_list(
             exec_command(m, bridge_cmd \o " vlan add vid "
                             \o ToString(Head(vids)) \o " dev " \o ifname,
                          NoStdin),
             ifname, Tail(vids))

RECURSIVE bridge_vlan_del_vid_list_self(_, _, _, _)
bridge_vlan_del_vid_list_self(m, ifname, vids, is_bridge) ==
    IF vids = <<>> THEN m
    ELSE bridge_vlan_del_vid_list_self(
             __execute_or_batch(m, bridge_cmd,
                 "vlan del vid " \o ToString(Head(vids)) \o " dev " \o ifname
                 \o " " \o Target(is_bridge)),
             ifname, Tail(vids), is_bridge)

RECURSIVE bridge_vlan_add_vid_list_self(_, _, _, _)
bridge_vlan_add_vid_list_self(m, ifname, vids, is_bridge) ==
    IF vids = <<>> THEN m
    ELSE bridge_vlan_add_vid_list_self(
             __execute_or_batch(m, bridge_cmd,
                 "vlan add vid " \o ToString(Head(vids)) \o " dev " \o ifname
                 \o " " \o Target(is_bridge)),
             ifname, Tail(vids), is_bridge)

bridge_vlan_del_pvid(m, ifname, pvid) ==
    __execute_or_batch(m, bridge_cmd,
        "vlan del vid " \o ToString(pvid) \o " untagged pvid dev " \o ifname)

bridge_vlan_add_pvid(m, ifname, pvid) ==
    __execute_or_batch(m, bridge_cmd,
        "vlan add vid " \o ToString(pvid) \o " untagged pvid dev " \o ifname)

\* int(vlan): the value of a decimal text, with its sign; any other text
\* raises ValueError and None raises TypeError
PyInt(x) ==
    CASE x = "0" -> [ok |-> TRUE, value |-> 0]
      [] x = "1" -> [ok |-> TRUE, value |-> 1]
      [] x = "10" -> [ok |-> TRUE, value |-> 10]
      [] x = "4095" -> [ok |-> TRUE, value |-> 4095]
      [] x = "4096" -> [ok |-> TRUE, value |-> 4096]
      [] x = "5000" -> [ok |-> TRUE, value |-> 5000]
      [] x = "-5" -> [ok |-> TRUE, value |-> 0 - 5]
      [] OTHER -> [ok |-> FALSE, value |-> 0]

\* mcquerier.split(".")
Split(mcquerier) ==
    CASE mcquerier = "239.1.1.1" -> <<"239", "1", "1", "1">>
      [] mcquerier = "1.2.3.4" -> <<"1", "2", "3", "4">>
      [] mcquerier = "0.0.0.255" -> <<"0", "0", "0", "255">>
      [] mcquerier = "1.2.3.256" -> <<"1", "2", "3", "256">>
      [] mcquerier = "1.2.3" -> <<"1", "2", "3">>
      [] mcquerier = "1.2.3.4.5" -> <<"1", "2", "3", "4", "5">>
      [] mcquerier = "1..3.4" -> <<"1", "", "3", "4">>
      [] mcquerier = "1.2.x.4" -> <<"1", "2", "x", "4">>
      [] mcquerier = "1.2.3.-4" -> <<"1", "2", "3", "-4">>
      [] OTHER -> <<mcquerier>>

\* k.isdigit(): k is not empty and all its characters are digits
isdigit(k) == k \in {"0", "1", "2", "3", "4", "5", "239", "255", "256"}

\* int(k, 10) of a text of digits
PyInt10(k) ==
    CASE k = "0" -> 0
      [] k = "1" -> 1
      [] k = "2" -> 2
      [] k = "3" -> 3
      [] k = "4" -> 4
      [] k = "5" -> 5
      [] k = "239" -> 239
      [] k = "255" -> 255
      [] k = "256" -> 256

\* for k in ip: the check that rejects an octet
BadOctet(k) ==
    ~isdigit(k) \/ PyInt10(k) < 0 \/ PyInt10(k) > 255

bridge_del_mcqv4src(m, bridge, vlan) ==
    IF ~PyInt(vlan).ok THEN Return(m, "None")
    ELSE exec_command(m, brctl_cmd \o " delmcqv4src " \o bridge \o " "
                         \o ToString(PyInt(vlan).value), NoStdin)

bridge_set_mcqv4src(m, bridge, vlan, mcquerier) ==
    IF ~PyInt(vlan).ok THEN Return(m, "None")
    ELSE IF PyInt(vlan).value = 0 \/ PyInt(vlan).value > 4095
    THEN Return(m, "None")
    ELSE LET ip == Split(mcquerier)
         IN IF Len(ip) # 4 THEN Return(m, "None")
            ELSE IF \E i \in 1..Len(ip) : BadOctet(ip[i])
            THEN Return(m, "None")
            ELSE exec_command(m, brctl_cmd \o " setmcqv4src " \o bridge
                                 \o " " \o ToString(PyInt(vlan).value)
                                 \o " " \o mcquerier, NoStdin)

\* lambda _, __: None and lambda _, __, ___: None
McqLambda(m) == Return(m, "None")

----------------------------------------------------------------------------
(* ROUTE *)

route_add_gateway(m, ifname, gateway, vrf, metric, onlink) ==
    IF ~Given(gateway) THEN Return(m, "None")
    ELSE exec_command(m,
             (IF ~Given(vrf)
              THEN ip_cmd \o " route add default via " \o gateway
                   \o " proto kernel"
              ELSE ip_cmd \o " route add table " \o vrf \o " default via "
                   \o gateway \o " proto kernel")
             \o (IF Given(metric) THEN " metric " \o metric ELSE "")
             \o " dev " \o ifname
             \o (IF onlink THEN " onlink" ELSE ""),
             NoStdin)

route_del_gateway(m, ifname, gateway, vrf, metric) ==
    IF ~Given(gateway) THEN Return(m, "None")
    ELSE exec_command(m,
             (IF ~Given(vrf)
              THEN ip_cmd \o " route del default via " \o gateway
                   \o " proto kernel"
              ELSE ip_cmd \o " route del table " \o vrf \o " default via "
                   \o gateway \o " proto kernel")
             \o (IF Given(metric) THEN " metric " \o metric ELSE "")
             \o " dev " \o ifname,
             NoStdin)

\* IPNetwork(ip): version, network address and prefix length
IPNetwork(ip) ==
    CASE ip = "2001:db8::1/64" ->
             [version |-> 6, network |-> "2001:db8::", prefixlen |-> 64]
      [] ip = "2001:db8:1::5/48" ->
             [version |-> 6, network |-> "2001:db8:1::", prefixlen |-> 48]
      [] ip = "10.0.0.1/24" ->
             [version |-> 4, network |-> "10.0.0.0", prefixlen |-> 24]

\* '%s/%d' % (ip_network_obj.network, ip_network_obj.prefixlen)
RoutePrefix(ip) ==
    IPNetwork(ip).network \o "/" \o ToString(IPNetwork(ip).prefixlen)

\* the loop over ifaceobj.upperifaces: the first table that is set, else the
\* last one read; iterating None raises, which the except clause swallows
RECURSIVE UpperVrfTable(_, _, _)
UpperVrfTable(c, upperifaces, vrf_table) ==
    IF upperifaces = <<>> THEN vrf_table
    ELSE LET t == c.vrf_table[Head(upperifaces)]
         IN IF t # 0 THEN t ELSE UpperVrfTable(c, Tail(upperifaces), t)

\* mutant: the upper interfaces are read whether or not the link is a VRF slave
VrfTableOf_any_iface(c, ifaceobj) ==
    IF ~ifaceobj.upperifaces.null
    THEN UpperVrfTable(c, ifaceobj.upperifaces.items, 0)
    ELSE 0

\* vrf_table after the first block; 0 stands for None (no table)
VrfTableOf(c, ifaceobj) ==
    IF ifaceobj.vrf_slave /\ ~ifaceobj.upperifaces.null
    THEN UpperVrfTable(c, ifaceobj.upperifaces.items, 0)
    ELSE 0

\* the first loop: one 'route del' per IPv6 address
RECURSIVE RouteDelLoop(_, _, _, _)
RouteDelLoop(m, vrf_table, macvlan_ifacename, ips) ==
    IF ips = <<>> THEN m
    ELSE LET ip == Head(ips)
             m1 == IF IPNetwork(ip).version = 6
                   THEN IF vrf_table # 0
                        THEN __execute_or_batch(m, ip_cmd,
                                 "route del " \o RoutePrefix(ip) \o " table "
                                 \o ToString(vrf_table) \o " dev "
                                 \o macvlan_ifacename)
                        ELSE __execute_or_batch(m, ip_cmd,
                                 "route del " \o RoutePrefix(ip) \o " dev "
                                 \o macvlan_ifacename)
                   ELSE m
         IN RouteDelLoop(m1, vrf_table, macvlan_ifacename, Tail(ips))

\* ip_route_del: the (route_prefix, vrf_table) pairs the first loop collects
RECURSIVE IpRouteDel(_, _)
IpRouteDel(vrf_table, ips) ==
    IF ips = <<>> THEN <<>>
    ELSE (IF IPNetwork(Head(ips)).version = 6
          THEN <<[prefix |-> RoutePrefix(Head(ips)), table |-> vrf_table]>>
          ELSE <<>>)
         \o IpRouteDel(vrf_table, Tail(ips))

\* the second loop: one 'route add' per collected pair
RECURSIVE RouteAddLoop(_, _, _)
RouteAddLoop(m, macvlan_ifacename, ip_route_del) ==
    IF ip_route_del = <<>> THEN m
    ELSE LET ip == Head(ip_route_del).prefix
             vrf_table == Head(ip_route_del).table
             m1 == IF vrf_table # 0
                   THEN __execute_or_batch(m, ip_cmd,
                            "route add " \o ip \o " table "
                            \o ToString(vrf_table) \o " dev "
                            \o macvlan_ifacename
                            \o " proto kernel metric 9999")
                   ELSE __execute_or_batch(m, ip_cmd,
                            "route add " \o ip \o " dev " \o macvlan_ifacename
                            \o " proto kernel metric 9999")
         IN RouteAddLoop(m1, macvlan_ifacename, Tail(ip_route_del))

\* mutant: each route is added back right after it is deleted
RECURSIVE fix_ipv6_route_metric_interleaved(_, _, _, _)
fix_ipv6_route_metric_interleaved(m, ifaceobj, macvlan_ifacename, ips) ==
    IF ips = <<>> THEN m
    ELSE LET vrf_table == VrfTableOf(m.cache, ifaceobj)
             m1 == RouteDelLoop(m, vrf_table, macvlan_ifacename, <<Head(ips)>>)
             m2 == RouteAddLoop(m1, macvlan_ifacename,
                                IpRouteDel(vrf_table, <<Head(ips)>>))
         IN fix_ipv6_route_metric_interleaved(m2, ifaceobj, macvlan_ifacename,
                                              Tail(ips))

fix_ipv6_route_metric(m, ifaceobj, macvlan_ifacename, ips) ==
    LET vrf_table == VrfTableOf(m.cache, ifaceobj)
        m1 == RouteDelLoop(m, vrf_table, macvlan_ifacename, ips)
    IN RouteAddLoop(m1, macvlan_ifacename, IpRouteDel(vrf_table, ips))

----------------------------------------------------------------------------
(* Calls *)

\* every name the cache and sysfs are asked about
Names == {"eth0", "eth1", "vx0", "br0", "vrf1"}

\* an interface object without VRF membership
NoIface == [vrf_slave |-> FALSE, upperifaces |-> None]

\* the arguments of a call; a method leaves the ones it does not take as here
NoArgs ==
    [ifname |-> "", address |-> "", master |-> "", addrgen |-> 0,
     link_created |-> FALSE, vxlanid |-> 0, localtunnelip |-> PyNone,
     svcnodeip |-> PyNone, remoteips |-> None, learning |-> "on",
     ageing |-> PyNone, ttl |-> PyNone, physdev |-> PyNone, vids |-> <<>>,
     is_bridge |-> TRUE, pvid |-> 0, ifaceobj |-> NoIface, ips |-> <<>>,
     vlan |-> "", mcquerier |-> "", fdb |-> <<>>, grep_error |-> FALSE,
     macvlan_ifname |-> "", macvlan_mode |-> "", remote |-> PyNone,
     gateway |-> PyNone, vrf |-> PyNone, metric |-> PyNone, onlink |-> TRUE]

\* the machine at the start of a call whose fail-th executor invocation fails
Start(fail) ==
    [batch |-> batch, batch_mode |-> batch_mode, cache |-> cache,
     trace |-> <<>>, raised |-> "", ret |-> "None", fail |-> fail]

\* the state after a call that left the machine as m
Finish(op, args, m) ==
    /\ Len(m.batch.items) > Len(batch.items) => Len(batch.items) < MaxBatch
    /\ batch' = m.batch
    /\ batch_mode' = m.batch_mode
    /\ cache' = m.cache
    /\ sysfs' = sysfs
    /\ bridge_utils_is_installed' = bridge_utils_is_installed
    /\ overrides' = overrides
    /\ last' = [op |-> op, args |-> args, trace |-> m.trace,
                raised |-> m.raised, ret |-> m.ret,
                was_batch_mode |-> batch_mode, was_pending |-> Truthy(batch)]
    /\ txn' = IF op = "batch_start" \/ ~m.batch_mode THEN <<>>
              ELSE txn \o Cmds(Emits(m.trace))

\* the failures worth exploring: a commit invokes the executor at most once,
\* and only on an open transaction; any other method invokes it only when no
\* transaction is open
CommitFails == IF batch_mode THEN {0, 1} ELSE {0}
Fails == IF batch_mode THEN {0} ELSE 0..MaxFail
\* for a method that emits a single fragment
OneFail == IF batch_mode THEN {0} ELSE {0, 1}

Call_batch_start ==
    Finish("batch_start", NoArgs, batch_start(Start(0)))

Call_batch_commit(fail) ==
    Finish("batch_commit", NoArgs, batch_commit(Start(fail)))

Call_bridge_batch_commit(fail) ==
    Finish("bridge_batch_commit", NoArgs, bridge_batch_commit(Start(fail)))

Call_link_up(ifname, fail) ==
    Finish("link_up", [NoArgs EXCEPT !.ifname = ifname],
           link_up(Start(fail), ifname))

Call_link_down(ifname, fail) ==
    Finish("link_down", [NoArgs EXCEPT !.ifname = ifname],
           link_down(Start(fail), ifname))

Call_link_up_force(ifname, fail) ==
    Finish("link_up_force", [NoArgs EXCEPT !.ifname = ifname],
           link_up_force(Start(fail), ifname))

Call_link_down_force(ifname, fail) ==
    Finish("link_down_force", [NoArgs EXCEPT !.ifname = ifname],
           link_down_force(Start(fail), ifname))

Call_link_set_master(ifname, master, fail) ==
    Finish("link_set_master",
           [NoArgs EXCEPT !.ifname = ifname, !.master = master],
           link_set_master(Start(fail), ifname, master))

Call_link_set_address(ifname, address, fail) ==
    Finish("link_set_address",
           [NoArgs EXCEPT !.ifname = ifname, !.address = address],
           link_set_address(Start(fail), ifname, address))

Call_link_set_ipv6_addrgen(ifname, addrgen, link_created, fail) ==
    Finish("link_set_ipv6_addrgen",
           [NoArgs EXCEPT !.ifname = ifname, !.addrgen = addrgen,
                          !.link_created = link_created],
           link_set_ipv6_addrgen(Start(fail), ifname, addrgen, link_created))

Call_link_up_dry_run(ifname, fail) ==
    Finish("link_up_dry_run", [NoArgs EXCEPT !.ifname = ifname],
           link_up_dry_run(Start(fail), ifname))

Call_link_down_dry_run(ifname, fail) ==
    Finish("link_down_dry_run", [NoArgs EXCEPT !.ifname = ifname],
           link_down_dry_run(Start(fail), ifname))

Call_link_set_master_dry_run(ifname, master, fail) ==
    Finish("link_set_master_dry_run",
           [NoArgs EXCEPT !.ifname = ifname, !.master = master],
           link_set_master_dry_run(Start(fail), ifname, master))

Call_link_set_address_dry_run(ifname, address, fail) ==
    Finish("link_set_address_dry_run",
           [NoArgs EXCEPT !.ifname = ifname, !.address = address],
           link_set_address_dry_run(Start(fail), ifname, address))

Call_link_set_ipv6_addrgen_dry_run(ifname, addrgen, link_created, fail) ==
    Finish("link_set_ipv6_addrgen_dry_run",
           [NoArgs EXCEPT !.ifname = ifname, !.addrgen = addrgen,
                          !.link_created = link_created],
           link_set_ipv6_addrgen_dry_run(Start(fail), ifname, addrgen,
                                         link_created))

Call_link_create_vxlan(a, fail) ==
    Finish("link_create_vxlan", a,
           link_create_vxlan(Start(fail), a.ifname, a.vxlanid, a.localtunnelip,
                             a.svcnodeip, a.remoteips, a.learning, a.ageing,
                             a.ttl, a.physdev))

Call_link_add_macvlan(ifname, macvlan_ifname, macvlan_mode, fail) ==
    Finish("link_add_macvlan",
           [NoArgs EXCEPT !.ifname = ifname, !.macvlan_ifname = macvlan_ifname,
                          !.macvlan_mode = macvlan_mode],
           link_add_macvlan(Start(fail), ifname, macvlan_ifname, macvlan_mode))

Call_bridge_fdb_add(a, fail) ==
    Finish("bridge_fdb_add", a,
           bridge_fdb_add(Start(fail), a.ifname, a.address, a.vlan,
                          a.is_bridge, a.remote))

Call_bridge_fdb_append(a, fail) ==
    Finish("bridge_fdb_append", a,
           bridge_fdb_append(Start(fail), a.ifname, a.address, a.vlan,
                             a.is_bridge, a.remote))

Call_bridge_fdb_del(a, fail) ==
    Finish("bridge_fdb_del", a,
           bridge_fdb_del(Start(fail), a.ifname, a.address, a.vlan,
                          a.is_bridge, a.remote))

Call_bridge_vlan_del_vid_list(ifname, vids, fail) ==
    Finish("bridge_vlan_del_vid_list",
           [NoArgs EXCEPT !.ifname = ifname, !.vids = vids],
           bridge_vlan_del_vid_list(Start(fail), ifname, vids))

Call_bridge_vlan_add_vid_list(ifname, vids, fail) ==
    Finish("bridge_vlan_add_vid_list",
           [NoArgs EXCEPT !.ifname = ifname, !.vids = vids],
           bridge_vlan_add_vid_list(Start(fail), ifname, vids))

Call_route_add_gateway(a, fail) ==
    Finish("route_add_gateway", a,
           route_add_gateway(Start(fail), a.ifname, a.gateway, a.vrf,
                             a.metric, a.onlink))

Call_route_del_gateway(a, fail) ==
    Finish("route_del_gateway", a,
           route_del_gateway(Start(fail), a.ifname, a.gateway, a.vrf,
                             a.metric))

Call_get_vxlan_peers(dev, svcnodeip, fdb, grep_error) ==
    Finish("get_vxlan_peers",
           [NoArgs EXCEPT !.ifname = dev, !.svcnodeip = svcnodeip,
                          !.fdb = fdb, !.grep_error = grep_error],
           get_vxlan_peers(Start(0), dev, svcnodeip, fdb, grep_error))

Call_bridge_vlan_del_vid_list_self(ifname, vids, is_bridge, fail) ==
    Finish("bridge_vlan_del_vid_list_self",
           [NoArgs EXCEPT !.ifname = ifname, !.vids = vids,
                          !.is_bridge = is_bridge],
           bridge_vlan_del_vid_list_self(Start(fail), ifname, vids, is_bridge))

Call_bridge_vlan_add_vid_list_self(ifname, vids, is_bridge, fail) ==
    Finish("bridge_vlan_add_vid_list_self",
           [NoArgs EXCEPT !.ifname = ifname, !.vids = vids,
                          !.is_bridge = is_bridge],
           bridge_vlan_add_vid_list_self(Start(fail), ifname, vids, is_bridge))

Call_bridge_vlan_del_pvid(ifname, pvid, fail) ==
    Finish("bridge_vlan_del_pvid",
           [NoArgs EXCEPT !.ifname = ifname, !.pvid = pvid],
           bridge_vlan_del_pvid(Start(fail), ifname, pvid))

Call_bridge_vlan_add_pvid(ifname, pvid, fail) ==
    Finish("bridge_vlan_add_pvid",
           [NoArgs EXCEPT !.ifname = ifname, !.pvid = pvid],
           bridge_vlan_add_pvid(Start(fail), ifname, pvid))

Call_fix_ipv6_route_metric(ifaceobj, macvlan_ifacename, ips, fail) ==
    Finish("fix_ipv6_route_metric",
           [NoArgs EXCEPT !.ifname = macvlan_ifacename, !.ifaceobj = ifaceobj,
                          !.ips = ips],
           fix_ipv6_route_metric(Start(fail), ifaceobj, macvlan_ifacename, ips))

\* the attribute looked up on the instance: the lambda __init__ put there,
\* else the method of the class
Call_bridge_del_mcqv4src(bridge, vlan, fail) ==
    Finish("bridge_del_mcqv4src",
           [NoArgs EXCEPT !.ifname = bridge, !.vlan = vlan],
           IF "bridge_del_mcqv4src" \in overrides THEN McqLambda(Start(fail))
           ELSE bridge_del_mcqv4src(Start(fail), bridge, vlan))

Call_bridge_set_mcqv4src(bridge, vlan, mcquerier, fail) ==
    Finish("bridge_set_mcqv4src",
           [NoArgs EXCEPT !.ifname = bridge, !.vlan = vlan,
                          !.mcquerier = mcquerier],
           IF "bridge_set_mcqv4src" \in overrides THEN McqLambda(Start(fail))
           ELSE bridge_set_mcqv4src(Start(fail), bridge, vlan, mcquerier))

----------------------------------------------------------------------------
(* Initial states: __init__, and what the collaborators answer *)

Mac1 == mac_str_to_int("00:00:5e:00:01:01")

DefaultCache ==
    [link_is_up |-> [n \in Names |-> FALSE],
     link_address_raw |-> [n \in Names |-> Mac1],
     master |-> [n \in Names |-> PyNone],
     ipv6_addrgen_mode |-> [n \in Names |-> 0],
     link_mtu |-> [n \in Names |-> 1500],
     link_exists |-> [n \in Names |-> TRUE],
     vrf_table |-> [n \in Names |-> 0],
     address_cached |-> [n \in Names |-> TRUE]]

DefaultSysfs ==
    [disable_ipv6 |-> [n \in Names |-> FALSE],
     link_mtu |-> [n \in Names |-> 1500]]

\* f on the names of S, d elsewhere
Over(S, f, d) == [n \in Names |-> IF n \in S THEN f[n] ELSE d]

NoCall ==
    [op |-> "__init__", args |-> NoArgs, trace |-> <<>>, raised |-> "",
     ret |-> "None", was_batch_mode |-> FALSE, was_pending |-> FALSE]

\* mutant: only the delete method is replaced
McqOverrides_del_only(installed) ==
    IF ~installed THEN {"bridge_del_mcqv4src"} ELSE {}

\* the instance attributes __init__ sets over the methods of the class when
\* bridge utils is not installed
McqOverrides(installed) ==
    IF ~installed
    THEN {"bridge_del_mcqv4src", "bridge_set_mcqv4src"}
    ELSE {}

\* __init__: no batch, batch mode off
ConstructedWith(installed) ==
    /\ batch = None
    /\ batch_mode = FALSE
    /\ bridge_utils_is_installed = installed
    /\ overrides = McqOverrides(installed)
    /\ last = NoCall
    /\ txn = <<>>

\* __init__ on a system with bridge utils
Constructed == ConstructedWith(TRUE)

----------------------------------------------------------------------------
(* The batch protocol: every batch-aware method on one link *)

InitBatch ==
    /\ Constructed
    /\ \E up \in BOOLEAN :
          cache = [DefaultCache EXCEPT !.link_is_up["eth0"] = up,
                                       !.link_exists["vx0"] = FALSE]
    /\ sysfs = DefaultSysfs

BatchVids == {<<10, 20>>}

NextBatch ==
    \/ Call_batch_start
    \/ \E fail \in CommitFails : Call_batch_commit(fail)
    \/ \E fail \in CommitFails : Call_bridge_batch_commit(fail)
    \/ \E fail \in Fails : Call_link_up_force("eth0", fail)
    \/ \E fail \in Fails : Call_link_down_force("eth0", fail)
    \/ \E fail \in Fails : Call_link_set_master("eth0", "br0", fail)
    \/ \E fail \in Fails : Call_link_set_address("eth0", "00:00:5e:00:01:02", fail)
    \/ \E fail \in Fails : Call_link_set_ipv6_addrgen("eth0", 1, FALSE, fail)
    \/ \E fail \in Fails :
          Call_link_create_vxlan([NoArgs EXCEPT !.ifname = "vx0", !.vxlanid = 42], fail)
    \/ \E vids \in BatchVids, fail \in Fails :
          Call_bridge_vlan_del_vid_list_self("eth0", vids, TRUE, fail)
    \/ \E vids \in BatchVids, fail \in Fails :
          Call_bridge_vlan_add_vid_list_self("eth0", vids, TRUE, fail)
    \/ \E fail \in Fails : Call_bridge_vlan_del_pvid("eth0", 10, fail)
    \/ \E fail \in Fails : Call_bridge_vlan_add_pvid("eth0", 10, fail)
    \/ \E fail \in Fails :
          Call_fix_ipv6_route_metric(NoIface, "eth0", <<"2001:db8::1/64", "10.0.0.1/24">>, fail)

SpecBatch == InitBatch /\ [][NextBatch]_vars

----------------------------------------------------------------------------
(* Claims on the batch protocol *)

Commits == {"batch_commit", "bridge_batch_commit"}

\* the tool a commit entry point hands the buffer to
CommitTool(op) == IF op = "batch_commit" THEN ip_cmd ELSE bridge_cmd

\* the methods that emit their fragments through __execute_or_batch
IsEmitter(op) == op \notin Commits \cup {"batch_start", "__init__"}

\* some executor invocation of the trace failed
ExecFailed(tr) == \E i \in 1..Len(tr) : IsExec(tr[i]) /\ ~tr[i].ok

\* C1: a commit on an open transaction to which no fragment was added invokes
\* no executor and leaves the transaction closed (batch mode off).
C1_EmptyCommitCloses ==
    [][(batch_mode /\ txn = <<>> /\ last'.op \in Commits)
         => (Execs(last'.trace) = <<>> /\ ~batch_mode')]_vars

\* C2: a commit on a non-empty open transaction invokes the executor exactly
\* once, with "<tool> -force -batch -" and, as standard input, the fragments
\* emitted since batch_start, in emission order, joined by newlines; both
\* commit entry points flush the one buffer.
C2_CommitFlushesOnce ==
    [][(batch_mode /\ Truthy(batch) /\ last'.op \in Commits)
         => /\ Len(last'.trace) = 1
            /\ IsExec(last'.trace[1])
            /\ last'.trace[1].cmd = CommitTool(last'.op) \o " -force -batch -"
            /\ last'.trace[1].stdin = Join("\n", txn)
            /\ txn # <<>>]_vars

\* reached: the bridge commit flushes a fragment built for the ip tool and one
\* built for the bridge tool in one invocation
C2_Witness ==
    /\ last.op = "bridge_batch_commit"
    /\ Len(last.trace) = 1
    /\ last.trace[1].stdin
         = "link set dev eth0 up\nvlan add vid 10 untagged pvid dev eth0"

\* C3: when the executor fails during a commit, the failure reaches the caller
\* and the transaction is closed all the same: batch mode off, buffer None.
C3_FailedCommitCloses ==
    (last.op \in Commits /\ ExecFailed(last.trace))
        => /\ last.raised = "CommandFailed"
           /\ ~batch_mode
           /\ batch = None

C3_Witness ==
    /\ last.op = "batch_commit"
    /\ last.was_batch_mode
    /\ ExecFailed(last.trace)

\* C4: a fragment of a batch-aware method is appended to the pending buffer,
\* with no executor invocation, exactly when a transaction is open; with no
\* transaction open each fragment is one executor invocation of
\* "<prefix> <fragment>" and nothing is buffered.
C4_BufferedIffOpen ==
    [][IsEmitter(last'.op)
         => LET emits == Emits(last'.trace)
                execs == Execs(last'.trace)
            IN IF batch_mode
               THEN /\ execs = <<>>
                    /\ batch_mode'
                    /\ batch' = List(batch.items \o Cmds(emits))
               ELSE /\ batch' = batch
                    /\ ~batch_mode'
                    /\ Len(execs) = Len(emits)
                    /\ \A i \in 1..Len(emits) :
                          /\ execs[i].cmd = emits[i].prefix \o " " \o emits[i].cmd
                          /\ execs[i].stdin = NoStdin]_vars

\* reached: three fragments of one call are appended behind a pending one
C4_Witness ==
    /\ last.op = "link_set_ipv6_addrgen"
    /\ last.was_batch_mode
    /\ Len(Emits(last.trace)) = 3
    /\ Execs(last.trace) = <<>>
    /\ Len(batch.items) = 4

\* C17: batch_start always leaves an open transaction with an empty pending
\* buffer; fragments that were pending are discarded: the buffer holds, and a
\* later commit hands to the executor, only the fragments emitted since the
\* last batch_start.
C17_StartDiscardsPending ==
    [][/\ last'.op = "batch_start" => (batch_mode' /\ batch' = List(<<>>))
       /\ batch_mode' => batch'.items = txn'
       /\ (last'.op \in Commits /\ Execs(last'.trace) # <<>>)
             => last'.trace[1].stdin = Join("\n", batch.items)]_vars

\* reached: batch_start on an open transaction with fragments pending
C17_Witness ==
    /\ last.op = "batch_start"
    /\ last.was_batch_mode
    /\ last.was_pending
    /\ batch = List(<<>>)
    /\ txn = <<>>

\* C19: in every reachable state batch mode is on exactly when the pending
\* buffer is a list and not None, so no call that appends in batch mode
\* finds the buffer missing.
C19_ModeIffBuffer ==
    /\ batch_mode <=> ~batch.null
    /\ last.raised # "AttributeError"

\* reached: two fragments of one call appended to the empty buffer of an open
\* transaction
C19_Witness ==
    /\ last.op = "bridge_vlan_add_vid_list_self"
    /\ last.was_batch_mode
    /\ ~last.was_pending
    /\ batch = List(<<"vlan add vid 10 dev eth0 self", "vlan add vid 20 dev eth0 self">>)

----------------------------------------------------------------------------
(* Link state and hardware address: two links, any cached state *)

Links == {"eth0", "eth1"}

InitLink ==
    /\ Constructed
    /\ \E up \in [Links -> BOOLEAN], addr \in [Links -> MacInts] :
          cache = [DefaultCache EXCEPT
                      !.link_is_up = Over(Links, up, FALSE),
                      !.link_address_raw = Over(Links, addr, Mac1)]
    /\ sysfs = DefaultSysfs

NextLink ==
    \/ Call_batch_start
    \/ \E fail \in CommitFails : Call_batch_commit(fail)
    \/ \E ifname \in Links, fail \in Fails : Call_link_up(ifname, fail)
    \/ \E ifname \in Links, fail \in Fails : Call_link_down(ifname, fail)
    \/ \E ifname \in Links, address \in MacStrs, fail \in Fails :
          Call_link_set_address(ifname, address, fail)

SpecLink == InitLink /\ [][NextLink]_vars

\* the fragments of the link methods
UpFragment(ifname) == "link set dev " \o ifname \o " up"
DownFragment(ifname) == "link set dev " \o ifname \o " down"
AddressFragment(ifname, address) ==
    "link set dev " \o ifname \o " address " \o address

\* the last call asked for an address other than the cached one
AddressDiffers ==
    mac_str_to_int(last.args.address) # cache.link_address_raw[last.args.ifname]

\* C5: when the requested address differs from the cached one,
\* link_set_address emits the down fragment, the address fragment and the up
\* fragment, in this order, whatever the cached state of the link.
C5_DownSetUp ==
    (last.op = "link_set_address" /\ AddressDiffers /\ last.raised = "")
        => Cmds(Emits(last.trace))
             = <<DownFragment(last.args.ifname),
                 AddressFragment(last.args.ifname, last.args.address),
                 UpFragment(last.args.ifname)>>

\* C6: when the cached hardware address equals the requested one,
\* link_set_address emits nothing and leaves the pending batch as it was.
C6_SameAddressNoop ==
    [][(last'.op = "link_set_address"
          /\ mac_str_to_int(last'.args.address)
               = cache.link_address_raw[last'.args.ifname])
         => /\ last'.trace = <<>>
            /\ last'.raised = ""
            /\ batch' = batch
            /\ batch_mode' = batch_mode]_vars

\* reached: the same address in another spelling, with fragments pending
C6_Witness ==
    /\ last.op = "link_set_address"
    /\ last.args.address = "00:00:5E:00:01:01"
    /\ cache.link_address_raw[last.args.ifname] = Mac1
    /\ last.trace = <<>>
    /\ batch_mode
    /\ batch.items # <<>>

\* C7: link_up emits nothing when the cache reports the link up and link_down
\* nothing when it reports it down; otherwise each emits exactly its one
\* 'link set dev <name> up|down' fragment.
C7_UpDownIdempotent ==
    /\ last.op = "link_up" =>
          IF cache.link_is_up[last.args.ifname]
          THEN last.trace = <<>>
          ELSE Cmds(Emits(last.trace)) = <<UpFragment(last.args.ifname)>>
    /\ last.op = "link_down" =>
          IF cache.link_is_up[last.args.ifname]
          THEN Cmds(Emits(last.trace)) = <<DownFragment(last.args.ifname)>>
          ELSE last.trace = <<>>

\* reached: link_up on a link the cache reports up, inside a transaction
C7_Witness ==
    /\ last.op = "link_up"
    /\ cache.link_is_up[last.args.ifname]
    /\ last.was_batch_mode
    /\ last.trace = <<>>

----------------------------------------------------------------------------
(* IPv6 address generation mode *)

\* MTUs on both sides of the limit
MtuSamples == {0, MinAddrgenMtu - 1, MinAddrgenMtu, 1500}

AddrgenModes == {0, 1}

\* eth0 in any cached state; eth1 up or down, on which the method proceeds
InitAddrgen ==
    /\ Constructed
    /\ \E up \in [Links -> BOOLEAN], mode \in AddrgenModes,
          cmtu \in MtuSamples, smtu \in MtuSamples, disabled \in BOOLEAN :
          /\ cache = [DefaultCache EXCEPT
                         !.link_is_up = Over(Links, up, FALSE),
                         !.ipv6_addrgen_mode["eth0"] = mode,
                         !.link_mtu["eth0"] = cmtu]
          /\ sysfs = [DefaultSysfs EXCEPT
                         !.disable_ipv6["eth0"] = disabled,
                         !.link_mtu["eth0"] = smtu]

NextAddrgen ==
    \/ Call_batch_start
    \/ \E fail \in CommitFails : Call_batch_commit(fail)
    \/ \E ifname \in Links, addrgen \in AddrgenModes, link_created \in BOOLEAN,
          fail \in Fails :
          Call_link_set_ipv6_addrgen(ifname, addrgen, link_created, fail)

SpecAddrgen == InitAddrgen /\ [][NextAddrgen]_vars

\* the MTU the method consults for the call with arguments a
LinkMtu(a) ==
    IF a.link_created THEN sysfs.link_mtu[a.ifname]
    ELSE cache.link_mtu[a.ifname]

ModeDiffers(a) == cache.ipv6_addrgen_mode[a.ifname] # a.addrgen

AddrgenFragment(a) ==
    "link set dev " \o a.ifname \o " addrgenmode "
    \o (IF a.addrgen = 1 THEN "none" ELSE "eui64")

\* cmd occurs among the fragments emitted in trace tr
Emitted(tr, cmd) == \E i \in 1..Len(tr) : IsEmit(tr[i]) /\ tr[i].cmd = cmd

\* C8 as stated: false and no command for every MTU in 0..1279, whatever the
\* other inputs; true and the addrgenmode fragment for every MTU of at least
\* 1280 with a cached mode other than the desired one.
C8_AsStated ==
    last.op = "link_set_ipv6_addrgen" =>
        /\ LinkMtu(last.args) < MinAddrgenMtu
              => (last.ret = "False" /\ last.trace = <<>>)
        /\ (LinkMtu(last.args) >= MinAddrgenMtu /\ ModeDiffers(last.args))
              => (last.ret = "True"
                  /\ Emitted(last.trace, AddrgenFragment(last.args)))

\* C8 amended: for every MTU in 0..1279 no command is emitted, and the method
\* returns false unless the cached mode equals the desired one (then true);
\* for every MTU of at least 1280 with a differing cached mode and IPv6 not
\* disabled it emits the addrgenmode fragment and returns true, unless a
\* command it executes fails.
C8_MtuGate ==
    last.op = "link_set_ipv6_addrgen" =>
        /\ LinkMtu(last.args) < MinAddrgenMtu
              => /\ last.trace = <<>>
                 /\ last.raised = ""
                 /\ last.ret = IF ModeDiffers(last.args) THEN "False" ELSE "True"
        /\ (/\ LinkMtu(last.args) >= MinAddrgenMtu
            /\ ModeDiffers(last.args)
            /\ ~sysfs.disable_ipv6[last.args.ifname]
            /\ last.raised = "")
              => (last.ret = "True"
                  /\ Emitted(last.trace, AddrgenFragment(last.args)))

\* reached: a just-created link whose sysfs MTU is 1279 while the cache holds
\* a larger one
C8_Witness ==
    /\ last.op = "link_set_ipv6_addrgen"
    /\ last.args.link_created
    /\ sysfs.link_mtu[last.args.ifname] = MinAddrgenMtu - 1
    /\ cache.link_mtu[last.args.ifname] >= MinAddrgenMtu
    /\ ModeDiffers(last.args)
    /\ last.ret = "False"

\* the method gets past its skip checks
Proceeds(a) ==
    /\ ModeDiffers(a)
    /\ ~sysfs.disable_ipv6[a.ifname]
    /\ LinkMtu(a) >= MinAddrgenMtu

\* the cache flushes and the fragments of a trace, in order
IsEffect(e) == IsFlush(e) \/ IsEmit(e)
Effects(tr) ==
    LET evs == SelectSeq(tr, IsEffect)
    IN [i \in 1..Len(evs) |-> <<evs[i].kind, evs[i].cmd>>]

ExpectedAddrgenEffects(a) ==
    (IF ~a.link_created THEN << <<"flush", a.ifname>> >> ELSE <<>>)
    \o (IF cache.link_is_up[a.ifname]
        THEN << <<"emit", DownFragment(a.ifname)>> >> ELSE <<>>)
    \o << <<"emit", AddrgenFragment(a)>> >>
    \o (IF cache.link_is_up[a.ifname]
        THEN << <<"emit", UpFragment(a.ifname)>> >> ELSE <<>>)

IsPrefix(s, t) == Len(s) <= Len(t) /\ \A i \in 1..Len(s) : s[i] = t[i]

\* C9: past the skip checks the effects are, in order: the address-cache flush
\* iff the link was not just created, the down fragment iff the cache
\* reports the link up, the addrgenmode fragment, the up fragment iff the
\* down fragment was emitted (a failing command cuts the sequence short). On
\* every other path nothing is emitted and the address cache is not flushed.
C9_AddrgenOrder ==
    [][last'.op = "link_set_ipv6_addrgen" =>
         LET a == last'.args
         IN IF Proceeds(a)
            THEN /\ IF last'.raised = ""
                    THEN Effects(last'.trace) = ExpectedAddrgenEffects(a)
                    ELSE IsPrefix(Effects(last'.trace), ExpectedAddrgenEffects(a))
                 /\ cache'.address_cached[a.ifname]
                      = (a.link_created /\ cache.address_cached[a.ifname])
            ELSE /\ last'.trace = <<>>
                 /\ cache' = cache]_vars

\* reached: flush, down, addrgenmode, up inside a transaction
C9_Witness ==
    /\ last.op = "link_set_ipv6_addrgen"
    /\ last.was_batch_mode
    /\ Len(Effects(last.trace)) = 4
    /\ Effects(last.trace)[1] = <<"flush", last.args.ifname>>
    /\ ~cache.address_cached[last.args.ifname]

----------------------------------------------------------------------------
(* VXLAN creation: every combination of the optional parameters *)

InitVxlan ==
    /\ Constructed
    /\ \E exists \in BOOLEAN :
          cache = [DefaultCache EXCEPT !.link_exists["vx0"] = exists]
    /\ sysfs = DefaultSysfs

VxlanArgs ==
    {[NoArgs EXCEPT !.ifname = "vx0", !.vxlanid = 42,
                    !.localtunnelip = localtunnelip, !.svcnodeip = svcnodeip,
                    !.remoteips = remoteips, !.learning = learning,
                    !.ageing = ageing, !.ttl = ttl, !.physdev = physdev] :
        localtunnelip \in {PyNone, "10.0.0.1"},
        svcnodeip \in {PyNone, "10.0.0.9", "239.1.1.1"},
        remoteips \in {None, List(<<>>), List(<<"10.0.0.2">>)},
        learning \in {"on", "off"},
        ageing \in {PyNone, "300"},
        ttl \in {PyNone, "0"},
        physdev \in {PyNone, "eth0"}}

\* no tunnel creation is pending: the exploration issues one per transaction
NoTunnelPending ==
    \A i \in 1..Len(batch.items) : batch.items[i] = "link set dev vx0 up"

NextVxlan ==
    \/ Call_batch_start
    \/ \E fail \in OneFail : Call_link_up_force("vx0", fail)
    \/ \E a \in VxlanArgs, fail \in OneFail :
          NoTunnelPending /\ Call_link_create_vxlan(a, fail)

SpecVxlan == InitVxlan /\ [][NextVxlan]_vars

\* C10: link_create_vxlan raises whenever the service-node IP and the
\* remote-IP list are both non-empty, whatever the other parameters and
\* whether or not the link exists; it then emits nothing and leaves the
\* pending batch and batch mode as they were.
C10_ExclusiveRaises ==
    [][(/\ last'.op = "link_create_vxlan"
        /\ last'.args.svcnodeip # PyNone
        /\ ~last'.args.remoteips.null
        /\ last'.args.remoteips.items # <<>>)
         => /\ last'.raised = "Exception"
            /\ last'.trace = <<>>
            /\ batch' = batch
            /\ batch_mode' = batch_mode]_vars

\* reached: the call raises on an existing link with a fragment pending
C10_Witness ==
    /\ last.op = "link_create_vxlan"
    /\ last.raised = "Exception"
    /\ cache.link_exists["vx0"]
    /\ last.args.ttl = "0"
    /\ batch_mode
    /\ batch.items = <<"link set dev vx0 up">>

\* the fragment the claim describes for a call with arguments a: the update or
\* create head, then one clause per supplied parameter in the claimed order
ExpectedVxlanFragment(a) ==
    LET opt(supplied, text) == IF supplied THEN " " \o text ELSE ""
    IN (IF cache.link_exists[a.ifname]
        THEN "link set dev " \o a.ifname \o " type vxlan dstport 4789"
        ELSE "link add dev " \o a.ifname \o " type vxlan id "
             \o ToString(a.vxlanid) \o " dstport 4789")
       \o opt(a.svcnodeip # PyNone,
              (IF is_multicast(a.svcnodeip) THEN "group " ELSE "remote ")
              \o a.svcnodeip)
       \o opt(a.ageing # PyNone, "ageing " \o a.ageing)
       \o opt(a.learning = "off", "nolearning")
       \o opt(a.ttl # PyNone, "ttl " \o a.ttl)
       \o opt(a.physdev # PyNone, "dev " \o a.physdev)
       \o opt(a.localtunnelip # PyNone, "local " \o a.localtunnelip)

\* C11: a link_create_vxlan that does not raise emits exactly one fragment:
\* 'link set dev <name> type vxlan dstport 4789' (no VNI) when the cache
\* reports the link exists, 'link add dev <name> type vxlan id <vni> dstport
\* 4789' otherwise, followed by the clauses of the supplied parameters only, in
\* the order group/remote, ageing, nolearning, ttl, dev, local.
C11_VxlanFragment ==
    (last.op = "link_create_vxlan" /\ last.raised # "Exception")
        => Cmds(Emits(last.trace)) = <<ExpectedVxlanFragment(last.args)>>

\* reached: an update of an existing link with every clause, buffered
C11_Witness ==
    /\ last.op = "link_create_vxlan"
    /\ cache.link_exists["vx0"]
    /\ last.was_batch_mode
    /\ batch.items # <<>>
    /\ batch.items[Len(batch.items)]
         = "link set dev vx0 type vxlan dstport 4789 group 239.1.1.1 "
           \o "ageing 300 nolearning ttl 0 dev eth0 local 10.0.0.1"

----------------------------------------------------------------------------
(* Multicast querier source: valid and invalid VLANs and addresses *)

InitMcq ==
    /\ \E installed \in BOOLEAN : ConstructedWith(installed)
    /\ cache = DefaultCache
    /\ sysfs = DefaultSysfs

VlanTexts == {"0", "1", "10", "4095", "4096", "5000", "-5", "abc", "", PyNone}

QuerierTexts ==
    {"239.1.1.1", "1.2.3.4", "0.0.0.255", "1.2.3.256", "1.2.3", "1.2.3.4.5",
     "1..3.4", "1.2.x.4", "1.2.3.-4", "", "10"}

\* a direct command is one executor invocation, also inside a transaction
DirectFail == {0, 1}

NextMcq ==
    \/ Call_batch_start
    \/ \E fail \in OneFail : Call_link_up_force("br0", fail)
    \/ \E vlan \in VlanTexts, fail \in DirectFail :
          Call_bridge_del_mcqv4src("br0", vlan, fail)
    \/ \E vlan \in VlanTexts, mcquerier \in QuerierTexts, fail \in DirectFail :
          Call_bridge_set_mcqv4src("br0", vlan, mcquerier, fail)

SpecMcq == InitMcq /\ [][NextMcq]_vars

\* the VLAN is the decimal text of an integer in 1..4095
VlanInRange(vlan) ==
    vlan \in {"1", "10", "4095"}

\* the address is a dotted quad whose octets are each in 0..255
IsDottedQuad(mcquerier) ==
    mcquerier \in {"239.1.1.1", "1.2.3.4", "0.0.0.255"}

\* C12: bridge_set_mcqv4src invokes the executor, exactly once, only for a
\* VLAN in 1..4095 with a dotted-quad address of octets in 0..255; for every
\* other input it invokes nothing and raises nothing.
C12_SetValidatesInput ==
    last.op = "bridge_set_mcqv4src" =>
        IF VlanInRange(last.args.vlan) /\ IsDottedQuad(last.args.mcquerier)
        THEN Len(Execs(last.trace)) <= 1
        ELSE last.trace = <<>> /\ last.raised = ""

\* the VLAN text parses as an integer, of either sign
ParsesAsInteger(vlan) ==
    vlan \in {"0", "1", "10", "4095", "4096", "5000", "-5"}

McqOps == {"bridge_set_mcqv4src", "bridge_del_mcqv4src"}

\* C18: on an object constructed while bridge utils is not installed,
\* bridge_set_mcqv4src and bridge_del_mcqv4src never invoke the executor,
\* whatever the input; on one constructed while it is installed,
\* bridge_del_mcqv4src invokes the executor exactly once for every VLAN that
\* parses as an integer and not at all otherwise.
C18_McqNoopsWithoutBridgeUtils ==
    /\ (last.op \in McqOps /\ ~bridge_utils_is_installed)
          => (last.trace = <<>> /\ last.raised = "")
    /\ (last.op = "bridge_del_mcqv4src" /\ bridge_utils_is_installed)
          => IF ParsesAsInteger(last.args.vlan)
             THEN /\ Len(last.trace) = 1
                  /\ IsExec(last.trace[1])
                  /\ last.trace[1].cmd
                       = "/sbin/brctl delmcqv4src " \o last.args.ifname
                         \o " " \o last.args.vlan
             ELSE last.trace = <<>> /\ last.raised = ""

\* reached: without bridge utils a valid set is a no-op, inside a transaction
\* that is left as it was
C18_Witness ==
    /\ ~bridge_utils_is_installed
    /\ last.op = "bridge_set_mcqv4src"
    /\ last.args.vlan = "10"
    /\ last.args.mcquerier = "239.1.1.1"
    /\ last.trace = <<>>
    /\ batch_mode
    /\ batch.items = <<"link set dev br0 up">>

----------------------------------------------------------------------------
(* IPv6 route metric: address lists of both families, with and without VRF *)

\* the tables the cache answers for the two upper interfaces; 0 is no table
InitRoute ==
    /\ Constructed
    /\ \E t1 \in {0, 1001}, t2 \in {0, 1002} :
          cache = [DefaultCache EXCEPT !.vrf_table["vrf1"] = t1,
                                       !.vrf_table["br0"] = t2]
    /\ sysfs = DefaultSysfs

RouteIfaces ==
    {NoIface,
     [vrf_slave |-> TRUE, upperifaces |-> None],
     [vrf_slave |-> TRUE, upperifaces |-> List(<<>>)],
     [vrf_slave |-> TRUE, upperifaces |-> List(<<"br0", "vrf1">>)],
     [vrf_slave |-> TRUE, upperifaces |-> List(<<"vrf1", "br0">>)],
     [vrf_slave |-> FALSE, upperifaces |-> List(<<"vrf1">>)]}

RouteIps ==
    {<<>>,
     <<"10.0.0.1/24">>,
     <<"2001:db8::1/64">>,
     <<"2001:db8::1/64", "10.0.0.1/24">>,
     <<"10.0.0.1/24", "2001:db8:1::5/48">>,
     <<"2001:db8::1/64", "2001:db8:1::5/48">>,
     <<"2001:db8:1::5/48", "2001:db8::1/64">>,
     <<"2001:db8::1/64", "10.0.0.1/24", "2001:db8:1::5/48">>,
     <<"2001:db8::1/64", "2001:db8::1/64">>}

NextRoute ==
    \/ Call_batch_start
    \/ \E fail \in CommitFails : Call_batch_commit(fail)
    \/ \E ifaceobj \in RouteIfaces, ips \in RouteIps, fail \in Fails :
          Call_fix_ipv6_route_metric(ifaceobj, "eth0", ips, fail)

SpecRoute == InitRoute /\ [][NextRoute]_vars

\* the fragments of the claims; table 0 is no table
RouteDelFragment(prefix, table, dev) ==
    "route del " \o prefix
    \o (IF table # 0 THEN " table " \o ToString(table) ELSE "")
    \o " dev " \o dev

RouteAddFragment(prefix, table, dev) ==
    "route add " \o prefix
    \o (IF table # 0 THEN " table " \o ToString(table) ELSE "")
    \o " dev " \o dev \o " proto kernel metric 9999"

RoutePrefixes == {"2001:db8::/64", "2001:db8:1::/48", "10.0.0.0/24"}
RouteTables == {0, 1001, 1002}

IsRouteDel(f) ==
    \E p \in RoutePrefixes, t \in RouteTables : f = RouteDelFragment(p, t, "eth0")

IsRouteAdd(f) ==
    \E p \in RoutePrefixes, t \in RouteTables : f = RouteAddFragment(p, t, "eth0")

\* the i-th delete and the j-th add name the same prefix
SamePrefix(del, add) ==
    \E p \in RoutePrefixes, t1 \in RouteTables, t2 \in RouteTables :
        /\ del = RouteDelFragment(p, t1, "eth0")
        /\ add = RouteAddFragment(p, t2, "eth0")

\* C13: in the fragments of one fix_ipv6_route_metric call every 'route del'
\* precedes every 'route add', and the adds of a call that completes name the
\* prefixes of the deletes in the same order.
C13_DeletesBeforeAdds ==
    last.op = "fix_ipv6_route_metric" =>
        LET frs == Cmds(Emits(last.trace))
            dels == SelectSeq(frs, IsRouteDel)
            adds == SelectSeq(frs, IsRouteAdd)
        IN /\ frs = dels \o adds
           /\ last.raised = "" =>
                 /\ Len(adds) = Len(dels)
                 /\ \A i \in 1..Len(dels) : SamePrefix(dels[i], adds[i])

\* reached: two IPv6 addresses around an IPv4 one, buffered: both deletes,
\* then both adds
C13_Witness ==
    /\ last.op = "fix_ipv6_route_metric"
    /\ last.was_batch_mode
    /\ batch.items
         = <<"route del 2001:db8::/64 dev eth0",
             "route del 2001:db8:1::/48 dev eth0",
             "route add 2001:db8::/64 dev eth0 proto kernel metric 9999",
             "route add 2001:db8:1::/48 dev eth0 proto kernel metric 9999">>

\* the claim's reading of the inputs: family and route prefix of an address
IsIPv6(ip) == ip \in {"2001:db8::1/64", "2001:db8:1::5/48"}

PrefixOfAddress(ip) ==
    CASE ip = "2001:db8::1/64" -> "2001:db8::/64"
      [] ip = "2001:db8:1::5/48" -> "2001:db8:1::/48"
      [] ip = "10.0.0.1/24" -> "10.0.0.0/24"

\* the first non-empty table among the upper interfaces of a VRF slave
ExpectedTable(ifaceobj) ==
    IF ~ifaceobj.vrf_slave THEN 0
    ELSE LET ups == ifaceobj.upperifaces.items
             set == {i \in 1..Len(ups) : cache.vrf_table[ups[i]] # 0}
         IN IF set = {} THEN 0
            ELSE cache.vrf_table[ups[CHOOSE i \in set : \A j \in set : i <= j]]

\* C14: a fix_ipv6_route_metric call that completes emits one delete and one
\* add per IPv6 address of the list and nothing for an IPv4 address; each add
\* carries metric 9999 and the prefix, device and table of its delete; the
\* table is the first non-empty one among the upper interfaces of a VRF slave
\* and absent otherwise.
C14_OnePairPerIPv6 ==
    (last.op = "fix_ipv6_route_metric" /\ last.raised = "") =>
        LET v6 == SelectSeq(last.args.ips, IsIPv6)
            t == ExpectedTable(last.args.ifaceobj)
            dev == last.args.ifname
        IN Cmds(Emits(last.trace))
             = [i \in 1..Len(v6) |->
                   RouteDelFragment(PrefixOfAddress(v6[i]), t, dev)]
               \o [i \in 1..Len(v6) |->
                   RouteAddFragment(PrefixOfAddress(v6[i]), t, dev)]

\* reached: a VRF slave whose first upper interface has no table and whose
\* second has table 1001; one IPv6 and one IPv4 address
C14_Witness ==
    /\ last.op = "fix_ipv6_route_metric"
    /\ last.args.ips = <<"2001:db8::1/64", "10.0.0.1/24">>
    /\ last.args.ifaceobj.upperifaces = List(<<"br0", "vrf1">>)
    /\ cache.vrf_table["br0"] = 0
    /\ Cmds(Emits(last.trace))
         = <<"route del 2001:db8::/64 table 1001 dev eth0",
             "route add 2001:db8::/64 table 1001 dev eth0 proto kernel metric 9999">>

----------------------------------------------------------------------------
(* VXLAN peers: FDB listings of up to MaxLines lines *)

FdbLines ==
    {<<ZeroMac, "dev", "vx0", "dst", "10.0.0.2", "self", "permanent">>,
     <<ZeroMac, "dev", "vx0", "dst", "10.0.0.3", "self", "permanent">>,
     <<ZeroMac, "dev", "vx0", "dst", "10.0.0.9", "self", "permanent">>,
     <<ZeroMac, "dev", "vx0", "dst", "10.0.0.2">>,
     <<ZeroMac, "dev", "vx0", "self", "permanent">>,
     <<"aa:bb:cc:dd:ee:ff", "dev", "vx0", "dst", "10.0.0.4", "self", "permanent">>}

FdbOutputs == UNION {[1..n -> FdbLines] : n \in 0..MaxLines}

InitPeers ==
    /\ Constructed
    /\ cache = DefaultCache
    /\ sysfs = DefaultSysfs

NextPeers ==
    \/ Call_batch_start
    \/ \E svcnodeip \in {PyNone, "10.0.0.2", "10.0.0.9"}, fdb \in FdbOutputs,
          grep_error \in BOOLEAN :
          Call_get_vxlan_peers("vx0", svcnodeip, fdb, grep_error)

SpecPeers == InitPeers /\ [][NextPeers]_vars

\* the line has a 'dst <ipv4>' field
HasDstField(line) ==
    \E i \in 1..Len(line) - 1 :
        line[i] = "dst" /\ line[i + 1] \in {"10.0.0.2", "10.0.0.3", "10.0.0.4", "10.0.0.9"}

DstOf(line) == line[(CHOOSE i \in 1..Len(line) - 1 : line[i] = "dst") + 1]

\* the remote IPs the claim lists for an FDB listing
RECURSIVE ClaimedPeers(_, _)
ClaimedPeers(fdb, svcnodeip) ==
    IF fdb = <<>> THEN <<>>
    ELSE (IF /\ Head(fdb)[1] = ZeroMac
             /\ HasDstField(Head(fdb))
             /\ DstOf(Head(fdb)) # svcnodeip
          THEN <<DstOf(Head(fdb))>>
          ELSE <<>>)
         \o ClaimedPeers(Tail(fdb), svcnodeip)

\* C15: get_vxlan_peers returns, in FDB output order, the remote IP of every
\* all-zero-MAC line that has a 'dst <ipv4>' field, except those equal to the
\* service-node IP; for the line '00:00:00:00:00:00 dev vx0 dst 10.0.0.2' that
\* is [] with service node 10.0.0.2 and [10.0.0.2] with service node 10.0.0.9.
C15_PeersOfFdb ==
    (last.op = "get_vxlan_peers" /\ ~last.args.grep_error)
        => last.ret = ClaimedPeers(last.args.fdb, last.args.svcnodeip)

----------------------------------------------------------------------------
(* Dry-run variants: two links in any cached state *)

InitDryRun ==
    /\ Constructed
    /\ \E up \in [Links -> BOOLEAN], master \in {PyNone, "br0"} :
          cache = [DefaultCache EXCEPT
                      !.link_is_up = Over(Links, up, FALSE),
                      !.master["eth0"] = master]
    /\ sysfs = DefaultSysfs

NextDryRun ==
    \/ Call_batch_start
    \/ \E fail \in CommitFails : Call_batch_commit(fail)
    \/ \E ifname \in Links, fail \in Fails : Call_link_up_dry_run(ifname, fail)
    \/ \E ifname \in Links, fail \in Fails : Call_link_down_dry_run(ifname, fail)
    \/ \E ifname \in Links, fail \in Fails :
          Call_link_set_master_dry_run(ifname, "br0", fail)
    \/ \E ifname \in Links, address \in MacStrs, fail \in Fails :
          Call_link_set_address_dry_run(ifname, address, fail)
    \/ \E ifname \in Links, addrgen \in AddrgenModes, link_created \in BOOLEAN,
          fail \in Fails :
          Call_link_set_ipv6_addrgen_dry_run(ifname, addrgen, link_created, fail)

SpecDryRun == InitDryRun /\ [][NextDryRun]_vars

\* the fragments a dry-run variant has when it checks nothing
DryRunFragments(op, a) ==
    CASE op = "link_up_dry_run" -> <<UpFragment(a.ifname)>>
      [] op = "link_down_dry_run" -> <<DownFragment(a.ifname)>>
      [] op = "link_set_master_dry_run" ->
             <<"link set dev " \o a.ifname \o " master " \o a.master>>
      [] op = "link_set_address_dry_run" ->
             <<DownFragment(a.ifname), AddressFragment(a.ifname, a.address),
               UpFragment(a.ifname)>>
      [] op = "link_set_ipv6_addrgen_dry_run" ->
             <<DownFragment(a.ifname), AddrgenFragment(a), UpFragment(a.ifname)>>

DryRunOps ==
    {"link_up_dry_run", "link_down_dry_run", "link_set_master_dry_run",
     "link_set_address_dry_run", "link_set_ipv6_addrgen_dry_run"}

\* C16: every dry-run variant emits all of its fragments, the down and up
\* transitions around an address or addrgen change included, whatever the
\* cache reports.
C16_DryRunEmitsAll ==
    (last.op \in DryRunOps /\ last.raised = "")
        => Cmds(Emits(last.trace)) = DryRunFragments(last.op, last.args)

----------------------------------------------------------------------------
(* The operations that do not go through the batch *)

InitDirect ==
    /\ Constructed
    /\ cache = DefaultCache
    /\ sysfs = DefaultSysfs

FdbArgs ==
    {[NoArgs EXCEPT !.ifname = "vx0", !.address = ZeroMac, !.vlan = vlan,
                    !.is_bridge = bridge, !.remote = remote] :
        vlan \in {PyNone, "10"}, bridge \in BOOLEAN,
        remote \in {PyNone, "10.0.0.2"}}

GatewayArgs ==
    {[NoArgs EXCEPT !.ifname = "eth0", !.gateway = gateway, !.vrf = vrf,
                    !.metric = metric, !.onlink = onlink] :
        gateway \in {PyNone, "10.0.0.254"}, vrf \in {PyNone, "1001"},
        metric \in {PyNone, "100"}, onlink \in BOOLEAN}

DirectVids == {<<>>, <<10, 20>>}

\* a call that runs up to two commands, any of which may fail
VidFails == {0, 1, 2}

NextDirect ==
    \/ Call_batch_start
    \/ \E fail \in CommitFails : Call_batch_commit(fail)
    \/ \E fail \in OneFail : Call_link_up_force("eth0", fail)
    \/ \E fail \in DirectFail : Call_link_add_macvlan("eth0", "mv0", "private", fail)
    \/ \E a \in FdbArgs, fail \in DirectFail : Call_bridge_fdb_add(a, fail)
    \/ \E a \in FdbArgs, fail \in DirectFail : Call_bridge_fdb_append(a, fail)
    \/ \E a \in FdbArgs, fail \in DirectFail : Call_bridge_fdb_del(a, fail)
    \/ \E vids \in DirectVids, fail \in VidFails :
          Call_bridge_vlan_del_vid_list("eth0", vids, fail)
    \/ \E vids \in DirectVids, fail \in VidFails :
          Call_bridge_vlan_add_vid_list("eth0", vids, fail)
    \/ \E a \in GatewayArgs, fail \in DirectFail : Call_route_add_gateway(a, fail)
    \/ \E a \in GatewayArgs, fail \in DirectFail : Call_route_del_gateway(a, fail)
    \/ \E fail \in DirectFail : Call_bridge_del_mcqv4src("br0", "10", fail)
    \/ \E fail \in DirectFail :
          Call_bridge_set_mcqv4src("br0", "10", "239.1.1.1", fail)

SpecDirect == InitDirect /\ [][NextDirect]_vars

DirectOps ==
    {"link_add_macvlan", "bridge_fdb_add", "bridge_fdb_append",
     "bridge_fdb_del", "bridge_vlan_add_vid_list", "bridge_vlan_del_vid_list",
     "route_add_gateway", "route_del_gateway", "bridge_set_mcqv4src",
     "bridge_del_mcqv4src"}

\* the commands a direct operation has to run: one per vid, none for a
\* gateway that is not given, one otherwise
DirectCommands(op, a) ==
    CASE op \in {"bridge_vlan_add_vid_list", "bridge_vlan_del_vid_list"} ->
             Len(a.vids)
      [] op \in {"route_add_gateway", "route_del_gateway"} ->
             IF a.gateway = PyNone THEN 0 ELSE 1
      [] OTHER -> 1

\* C20: the operations that do not go through the batch invoke the executor
\* at once, also while a transaction is open, and leave batch mode and the
\* pending buffer as they were; their commands reach the executor while the
\* fragments buffered before them are still pending.
C20_DirectOpsBypassBatch ==
    [][last'.op \in DirectOps
         => /\ batch' = batch
            /\ batch_mode' = batch_mode
            /\ Emits(last'.trace) = <<>>
            /\ Execs(last'.trace) = last'.trace
            /\ Len(last'.trace) <= DirectCommands(last'.op, last'.args)
            /\ last'.raised = ""
                  => Len(last'.trace) = DirectCommands(last'.op, last'.args)]_vars

\* reached: a macvlan link is created at once while a fragment buffered
\* before it is still pending
C20_Witness ==
    /\ last.op = "link_add_macvlan"
    /\ last.was_batch_mode
    /\ Cmds(Execs(last.trace))
         = <<"/bin/ip link add link eth0 name mv0 type macvlan mode private">>
    /\ batch_mode
    /\ batch.items = <<"link set dev eth0 up">>

----------------------------------------------------------------------------
(* Failure of a command between the down and the up of a link *)

\* the command that changes the link in the call c
ChangeCommand(c) ==
    IF c.op = "link_set_address"
    THEN ip_cmd \o " " \o AddressFragment(c.args.ifname, c.args.address)
    ELSE ip_cmd \o " " \o AddrgenFragment(c.args)

\* the i-th entry of the call's trace is the failed execution of its change
\* command, and the down command of the link was executed before it
ChangeFailedAfterDown(c, i) ==
    /\ IsExec(c.trace[i])
    /\ ~c.trace[i].ok
    /\ c.trace[i].cmd = ChangeCommand(c)
    /\ \E j \in 1..(i - 1) :
          /\ IsExec(c.trace[j])
          /\ c.trace[j].ok
          /\ c.trace[j].cmd = ip_cmd \o " " \o DownFragment(c.args.ifname)

\* C21: with no transaction open, when the executor fails on the address
\* command of link_set_address or on the addrgenmode command of
\* link_set_ipv6_addrgen after the down command of the link was executed, the
\* failure reaches the caller at once: the failed execution is the last thing
\* the call does, it is not run again, and no up command is issued.
C21_FailureLeavesLinkDown ==
    (last.op \in {"link_set_address", "link_set_ipv6_addrgen"}
       /\ ~last.was_batch_mode)
        => \A i \in 1..Len(last.trace) :
              ChangeFailedAfterDown(last, i)
                => /\ last.raised = "CommandFailed"
                   /\ i = Len(last.trace)
                   /\ \A j \in 1..Len(last.trace) :
                         /\ last.trace[j].cmd # UpFragment(last.args.ifname)
                         /\ last.trace[j].cmd
                              # ip_cmd \o " " \o UpFragment(last.args.ifname)
                         /\ (j # i => last.trace[j].cmd # ChangeCommand(last)
                                       \/ ~IsExec(last.trace[j]))

\* reached: the addrgenmode command fails after the flush and the down
C21_Witness ==
    /\ last.op = "link_set_ipv6_addrgen"
    /\ ~last.was_batch_mode
    /\ Len(last.trace) = 5
    /\ ChangeFailedAfterDown(last, 5)
    /\ last.raised = "CommandFailed"
    /\ ~cache.address_cached["eth0"]

====
